---------------------------- MODULE Spec2Model ----------------------------
(***************************************************************************)
(* Model of main.py: the Vapi call broker (make_call), the destination    *)
(* extractor (extract_destinations) and the Unsplash photo fetcher         *)
(* (get_destination_photos).                                               *)
(*                                                                         *)
(* A Python str is modelled as a sequence of one-character strings, so    *)
(* that lower(), title() and the \b word-boundary regex are computed       *)
(* character by character as CPython computes them on the characters of   *)
(* Alphabet (ASCII and a few non-ASCII letters, digits and marks).        *)
(***************************************************************************)
EXTENDS Integers, Sequences, FiniteSets

VARIABLES
  VAPI_PRIVATE_KEY,     \* main.py:23, module global read by make_call
  VAPI_ASSISTANT_ID,    \* main.py:24
  UNSPLASH_ACCESS_KEY,  \* main.py:25
  keywords,             \* main.py:54, the module-level DESTINATION_KEYWORDS dict
  text,                 \* argument of one extract_destinations call
  destinations,         \* its return value (<<>> before the call)
  extracted,            \* TRUE once extract_destinations has returned
  pc,                   \* per invocation: "idle", "awaiting", "reading", "closing", "done"
  op,                   \* per invocation: the handler that serves it
  arg,                  \* per invocation: the handler's arguments
  request,              \* per invocation: the outbound requests issued, in order
  reply,                \* per invocation: the provider's answer, as far as it arrived
  pending,              \* per invocation: how the try block ended, while the
                        \* `async with` blocks are being left
  outcome               \* per invocation: what the HTTP caller receives

config == <<VAPI_PRIVATE_KEY, VAPI_ASSISTANT_ID, UNSPLASH_ACCESS_KEY>>
vars == <<VAPI_PRIVATE_KEY, VAPI_ASSISTANT_ID, UNSPLASH_ACCESS_KEY, keywords,
          text, destinations, extracted, pc, op, arg, request, reply, pending,
          outcome>>

(***************************************************************************)
(* Bounds of the model.                                                    *)
(***************************************************************************)
MaxFrags == 3        \* a checked text is a concatenation of at most this many fragments
NumInv == 2          \* number of concurrent invocations
MaxResults == 2      \* most result items in one image-search answer
MaxOver == 2         \* requested counts range up to UnsplashMax + MaxOver

(***************************************************************************)
(* Characters and the str methods used by extract_destinations.           *)
(*                                                                         *)
(* A character is a string: an ASCII character stands for itself, a       *)
(* non-ASCII character is written as its code point, "U+00E9" for e-acute.*)
(* The operators are defined on Alphabet and on no other character.       *)
(***************************************************************************)
UPPER == <<"A","B","C","D","E","F","G","H","I","J","K","L","M",
           "N","O","P","Q","R","S","T","U","V","W","X","Y","Z">>
LOWER == <<"a","b","c","d","e","f","g","h","i","j","k","l","m",
           "n","o","p","q","r","s","t","u","v","w","x","y","z">>
DIGITS == {"0","1","2","3","4","5","6","7","8","9"}

UpperSet == {UPPER[i] : i \in 1..26}
LowerSet == {LOWER[i] : i \in 1..26}

\* the ASCII characters that are neither alphanumeric nor the underscore
\* (the space and the printable symbols; the double quote, the backslash and
\* the backquote are left out of the model)
AsciiOther ==
  {" ", "!", "#", "$", "%", "&", "'", "(", ")", "*", "+", ",", "-", ".", "/",
   ":", ";", "<", "=", ">", "?", "@", "[", "]", "^", "{", "|", "}", "~"}

\* the non-ASCII characters of the model:
\* U+00C9 capital E acute, U+00E9 small e acute, U+00DF sharp s,
\* U+0130 capital I with dot above, U+212A Kelvin sign (all cased letters),
\* U+0663 Arabic-Indic digit three,
\* U+0307 combining dot above, U+00A0 no-break space (neither letter nor digit)
Letters == UpperSet \cup LowerSet \cup {"U+00C9", "U+00E9", "U+00DF", "U+0130", "U+212A"}
Numerals == DIGITS \cup {"U+0663"}
Alphabet == Letters \cup Numerals \cup {"_"} \cup AsciiOther \cup {"U+0307", "U+00A0"}

NonLetters == Alphabet \ Letters
NonAlnums == Alphabet \ (Letters \cup Numerals)
\* the characters whose lower-case, respectively title-case, mapping is themselves
LowerFixed == Alphabet \ (UpperSet \cup {"U+00C9", "U+0130", "U+212A"})
TitleFixed == Alphabet \ (LowerSet \cup {"U+00E9", "U+00DF"})

ToLower == [c \in UpperSet |-> LOWER[CHOOSE i \in 1..26 : UPPER[i] = c]]
ToUpper == [c \in LowerSet |-> UPPER[CHOOSE i \in 1..26 : LOWER[i] = c]]

\* str.isalpha() of one character; every letter of Alphabet is cased
IsAlpha(c) ==
  CASE c \in Letters -> TRUE
    [] c \in NonLetters -> FALSE

\* str.isalnum() of one character
IsAlnum(c) ==
  CASE c \in Letters \cup Numerals -> TRUE
    [] c \in NonAlnums -> FALSE

\* the regex class \w of a str pattern: Unicode alphanumerics and the underscore
IsWordChar(c) == IsAlnum(c) \/ c = "_"

\* the lower-case mapping of one character, which may be two characters long
Lower(c) ==
  CASE c \in UpperSet -> <<ToLower[c]>>
    [] c = "U+00C9" -> <<"U+00E9">>
    [] c = "U+0130" -> <<"i", "U+0307">>
    [] c = "U+212A" -> <<"k">>
    [] c \in LowerFixed -> <<c>>

\* the title-case mapping of one character, which may be two characters long
Upper(c) ==
  CASE c \in LowerSet -> <<ToUpper[c]>>
    [] c = "U+00E9" -> <<"U+00C9">>
    [] c = "U+00DF" -> <<"S", "s">>
    [] c \in TitleFixed -> <<c>>

RECURSIVE Concat(_)
Concat(fs) == IF fs = <<>> THEN <<>> ELSE Head(fs) \o Concat(Tail(fs))

\* str.lower(): the mapping of every character, joined
str_lower(s) == Concat([i \in 1..Len(s) |-> Lower(s[i])])

\* str.capitalize() in place of str.title(): only the first character is upper-cased
str_capitalize(s) ==
  Concat([i \in 1..Len(s) |-> IF i > 1 THEN Lower(s[i]) ELSE Upper(s[i])])

\* str.title(): a character is title-cased when the character before it is
\* uncased (or there is none), lower-cased otherwise
str_title(s) ==
  Concat([i \in 1..Len(s) |->
            IF i > 1 /\ IsAlpha(s[i-1]) THEN Lower(s[i]) ELSE Upper(s[i])])

(***************************************************************************)
(* The destination dictionary, main.py:54-98, in dict insertion order.    *)
(***************************************************************************)
DESTINATION_KEYWORDS ==
  <<
    [category |-> "cities", destinations |-> <<
       <<"p","a","r","i","s">>,
       <<"l","o","n","d","o","n">>,
       <<"n","e","w"," ","y","o","r","k">>,
       <<"t","o","k","y","o">>,
       <<"r","o","m","e">>,
       <<"b","a","r","c","e","l","o","n","a">>,
       <<"a","m","s","t","e","r","d","a","m">>,
       <<"b","e","r","l","i","n">>,
       <<"p","r","a","g","u","e">>,
       <<"v","i","e","n","n","a">>,
       <<"b","u","d","a","p","e","s","t">>,
       <<"d","u","b","a","i">>,
       <<"s","i","n","g","a","p","o","r","e">>,
       <<"h","o","n","g"," ","k","o","n","g">>,
       <<"s","y","d","n","e","y">>,
       <<"m","e","l","b","o","u","r","n","e">>,
       <<"s","a","n"," ","f","r","a","n","c","i","s","c","o">>,
       <<"l","o","s"," ","a","n","g","e","l","e","s">>,
       <<"c","h","i","c","a","g","o">>,
       <<"m","i","a","m","i">>,
       <<"m","a","d","r","i","d">>,
       <<"l","i","s","b","o","n">>,
       <<"s","t","o","c","k","h","o","l","m">>,
       <<"c","o","p","e","n","h","a","g","e","n">>,
       <<"o","s","l","o">>,
       <<"h","e","l","s","i","n","k","i">>,
       <<"z","u","r","i","c","h">>,
       <<"g","e","n","e","v","a">>,
       <<"m","i","l","a","n">>,
       <<"f","l","o","r","e","n","c","e">>,
       <<"v","e","n","i","c","e">>,
       <<"n","a","p","l","e","s">>,
       <<"a","t","h","e","n","s">>,
       <<"i","s","t","a","n","b","u","l">>,
       <<"c","a","i","r","o">>,
       <<"m","a","r","r","a","k","e","c","h">>,
       <<"c","a","s","a","b","l","a","n","c","a">>,
       <<"c","a","p","e"," ","t","o","w","n">>,
       <<"j","o","h","a","n","n","e","s","b","u","r","g">>,
       <<"m","u","m","b","a","i">>,
       <<"d","e","l","h","i">>,
       <<"b","a","n","g","a","l","o","r","e">>,
       <<"b","a","n","g","k","o","k">>,
       <<"p","h","u","k","e","t">>,
       <<"b","a","l","i">>,
       <<"j","a","k","a","r","t","a">>,
       <<"m","a","n","i","l","a">>,
       <<"s","e","o","u","l">>,
       <<"b","u","s","a","n">>,
       <<"b","e","i","j","i","n","g">>,
       <<"s","h","a","n","g","h","a","i">>,
       <<"g","u","a","n","g","z","h","o","u">>,
       <<"t","a","i","p","e","i">>,
       <<"k","y","o","t","o">>,
       <<"o","s","a","k","a">>,
       <<"h","i","r","o","s","h","i","m","a">>,
       <<"s","a","p","p","o","r","o">>,
       <<"m","o","s","c","o","w">>,
       <<"s","t"," ","p","e","t","e","r","s","b","u","r","g">>,
       <<"n","o","v","o","s","i","b","i","r","s","k">>,
       <<"y","e","k","a","t","e","r","i","n","b","u","r","g">>,
       <<"s","o","c","h","i">>,
       <<"k","a","z","a","n">>,
       <<"g","o","a">>,
       <<"k","o","c","h","i">>,
       <<"j","a","i","p","u","r">>,
       <<"a","g","r","a">>,
       <<"v","a","r","a","n","a","s","i">>,
       <<"u","d","a","i","p","u","r">>,
       <<"j","o","d","h","p","u","r">>,
       <<"r","i","s","h","i","k","e","s","h">>,
       <<"m","a","n","a","l","i">>,
       <<"s","h","i","m","l","a">>,
       <<"d","a","r","j","e","e","l","i","n","g">>,
       <<"g","a","n","g","t","o","k">>,
       <<"s","h","i","l","l","o","n","g">>,
       <<"h","y","d","e","r","a","b","a","d">>,
       <<"p","u","n","e">>,
       <<"a","h","m","e","d","a","b","a","d">>,
       <<"k","o","l","k","a","t","a">>,
       <<"c","h","a","n","d","i","g","a","r","h">>,
       <<"l","u","c","k","n","o","w">>
    >>],
    [category |-> "countries", destinations |-> <<
       <<"f","r","a","n","c","e">>,
       <<"i","t","a","l","y">>,
       <<"s","p","a","i","n">>,
       <<"g","r","e","e","c","e">>,
       <<"t","u","r","k","e","y">>,
       <<"e","g","y","p","t">>,
       <<"m","o","r","o","c","c","o">>,
       <<"s","o","u","t","h"," ","a","f","r","i","c","a">>,
       <<"k","e","n","y","a">>,
       <<"t","a","n","z","a","n","i","a">>,
       <<"i","n","d","i","a">>,
       <<"t","h","a","i","l","a","n","d">>,
       <<"v","i","e","t","n","a","m">>,
       <<"c","a","m","b","o","d","i","a">>,
       <<"l","a","o","s">>,
       <<"m","y","a","n","m","a","r">>,
       <<"i","n","d","o","n","e","s","i","a">>,
       <<"m","a","l","a","y","s","i","a">>,
       <<"p","h","i","l","i","p","p","i","n","e","s">>,
       <<"s","i","n","g","a","p","o","r","e">>,
       <<"j","a","p","a","n">>,
       <<"s","o","u","t","h"," ","k","o","r","e","a">>,
       <<"c","h","i","n","a">>,
       <<"t","a","i","w","a","n">>,
       <<"a","u","s","t","r","a","l","i","a">>,
       <<"n","e","w"," ","z","e","a","l","a","n","d">>,
       <<"b","r","a","z","i","l">>,
       <<"a","r","g","e","n","t","i","n","a">>,
       <<"c","h","i","l","e">>,
       <<"p","e","r","u">>,
       <<"c","o","l","o","m","b","i","a">>,
       <<"m","e","x","i","c","o">>,
       <<"c","o","s","t","a"," ","r","i","c","a">>,
       <<"p","a","n","a","m","a">>,
       <<"c","a","n","a","d","a">>,
       <<"u","n","i","t","e","d"," ","s","t","a","t","e","s">>,
       <<"u","s","a">>,
       <<"u","n","i","t","e","d"," ","k","i","n","g","d","o","m">>,
       <<"u","k">>,
       <<"g","e","r","m","a","n","y">>,
       <<"n","e","t","h","e","r","l","a","n","d","s">>,
       <<"b","e","l","g","i","u","m">>,
       <<"a","u","s","t","r","i","a">>,
       <<"s","w","i","t","z","e","r","l","a","n","d">>,
       <<"s","w","e","d","e","n">>,
       <<"n","o","r","w","a","y">>,
       <<"d","e","n","m","a","r","k">>,
       <<"f","i","n","l","a","n","d">>,
       <<"i","c","e","l","a","n","d">>,
       <<"p","o","r","t","u","g","a","l">>,
       <<"c","z","e","c","h"," ","r","e","p","u","b","l","i","c">>,
       <<"h","u","n","g","a","r","y">>,
       <<"p","o","l","a","n","d">>,
       <<"c","r","o","a","t","i","a">>,
       <<"s","l","o","v","e","n","i","a">>,
       <<"r","u","s","s","i","a">>,
       <<"u","k","r","a","i","n","e">>,
       <<"b","e","l","a","r","u","s">>,
       <<"e","s","t","o","n","i","a">>,
       <<"l","a","t","v","i","a">>,
       <<"l","i","t","h","u","a","n","i","a">>,
       <<"i","n","d","o","n","e","s","i","a">>
    >>],
    [category |-> "landmarks", destinations |-> <<
       <<"e","i","f","f","e","l"," ","t","o","w","e","r">>,
       <<"s","t","a","t","u","e"," ","o","f"," ","l","i","b","e","r","t","y">>,
       <<"b","i","g"," ","b","e","n">>,
       <<"c","o","l","o","s","s","e","u","m">>,
       <<"a","c","r","o","p","o","l","i","s">>,
       <<"t","a","j"," ","m","a","h","a","l">>,
       <<"g","r","e","a","t"," ","w","a","l","l">>,
       <<"m","a","c","h","u"," ","p","i","c","c","h","u">>,
       <<"c","h","r","i","s","t"," ","t","h","e"," ","r","e","d","e","e","m","e","r">>,
       <<"p","e","t","r","a">>,
       <<"a","n","g","k","o","r"," ","w","a","t">>,
       <<"b","o","r","o","b","u","d","u","r">>,
       <<"c","h","i","c","h","e","n"," ","i","t","z","a">>,
       <<"n","e","u","s","c","h","w","a","n","s","t","e","i","n">>,
       <<"m","o","u","n","t"," ","r","u","s","h","m","o","r","e">>,
       <<"g","o","l","d","e","n"," ","g","a","t","e"," ","b","r","i","d","g","e">>,
       <<"s","y","d","n","e","y"," ","o","p","e","r","a"," ","h","o","u","s","e">>,
       <<"b","u","r","j"," ","k","h","a","l","i","f","a">>,
       <<"s","a","g","r","a","d","a"," ","f","a","m","i","l","i","a">>,
       <<"l","o","u","v","r","e">>,
       <<"v","a","t","i","c","a","n">>,
       <<"b","u","c","k","i","n","g","h","a","m"," ","p","a","l","a","c","e">>
    >>],
    [category |-> "regions", destinations |-> <<
       <<"t","u","s","c","a","n","y">>,
       <<"p","r","o","v","e","n","c","e">>,
       <<"b","a","v","a","r","i","a">>,
       <<"a","n","d","a","l","u","s","i","a">>,
       <<"c","a","t","a","l","o","n","i","a">>,
       <<"p","a","t","a","g","o","n","i","a">>,
       <<"a","m","a","z","o","n","i","a">>,
       <<"s","a","h","a","r","a">>,
       <<"s","a","h","e","l">>,
       <<"m","a","g","h","r","e","b">>,
       <<"s","c","a","n","d","i","n","a","v","i","a">>,
       <<"b","a","l","k","a","n","s">>,
       <<"c","a","u","c","a","s","u","s">>,
       <<"s","i","b","e","r","i","a">>,
       <<"h","i","m","a","l","a","y","a","s">>,
       <<"a","l","p","s">>,
       <<"a","n","d","e","s">>,
       <<"r","o","c","k","i","e","s">>,
       <<"c","a","r","i","b","b","e","a","n">>,
       <<"m","e","d","i","t","e","r","r","a","n","e","a","n">>,
       <<"b","a","l","t","i","c">>,
       <<"a","d","r","i","a","t","i","c">>,
       <<"a","e","g","e","a","n">>
    >>]
  >>

(***************************************************************************)
(* re.search(r'\b' + re.escape(destination) + r'\b', text_lower)          *)
(***************************************************************************)
\* is the character at index k (1-based) a word character; FALSE outside s
WordAt(s, k) == k >= 1 /\ k <= Len(s) /\ IsWordChar(s[k])

\* \b at the gap after index k (k = 0 is the start of s, k = Len(s) its end):
\* exactly one of the two neighbouring characters is a word character
WordBoundary(s, k) == WordAt(s, k) # WordAt(s, k + 1)

\* the pattern without its two \b anchors: a plain substring search
re_search_substring(destination, s) ==
  \E i \in 1..(Len(s) - Len(destination) + 1) :
     SubSeq(s, i, i + Len(destination) - 1) = destination

\* re.escape makes every character of destination a literal
re_search(destination, s) ==
  \E i \in 1..(Len(s) - Len(destination) + 1) :
     /\ s[i] = destination[1]
     /\ SubSeq(s, i, i + Len(destination) - 1) = destination
     /\ WordBoundary(s, i - 1)
     /\ WordBoundary(s, i + Len(destination) - 1)

\* the order in which the nested for loops of lines 106-107 visit the phrases
RECURSIVE ScanOrder(_)
ScanOrder(kw) ==
  IF kw = <<>> THEN <<>>
  ELSE Head(kw).destinations \o ScanOrder(Tail(kw))

\* lines 103-111: the title-cased form of every matching phrase, in scan order
FoundIn(scan, text_lower) ==
  LET matching == SelectSeq(scan, LAMBDA destination : re_search(destination, text_lower))
  IN  [i \in 1..Len(matching) |-> str_title(matching[i])]

found_destinations(kw, t) == FoundIn(ScanOrder(kw), str_lower(t))

\* lines 113-119 without the membership test of line 117
unique_keep_all(found, seen) == found

\* lines 113-119: remove duplicates while preserving order
RECURSIVE unique_destinations(_, _)
unique_destinations(found, seen) ==
  IF found = <<>> THEN <<>>
  ELSE IF str_lower(Head(found)) \notin seen
         THEN <<Head(found)>>
              \o unique_destinations(Tail(found), seen \cup {str_lower(Head(found))})
         ELSE unique_destinations(Tail(found), seen)

\* main.py:100-121
extract_destinations(kw, t) == unique_destinations(found_destinations(kw, t), {})

(***************************************************************************)
(* Input texts: the scenario texts of the specification and every          *)
(* concatenation of at most MaxFrags fragments.                            *)
(***************************************************************************)
TextJourney ==
  <<"I"," ","w","a","n","t"," ","t","o"," ","v","i","s","i","t"," ","P","a","r","i","s"," ","a","n","d"," ","t","h","e","n"," ","s","e","e"," ","t","h","e"," ","E","i","f","f","e","l"," ","T","o","w","e","r"," ","b","e","f","o","r","e"," ","h","e","a","d","i","n","g"," ","t","o"," ","J","a","p","a","n">>
TextParisThrice ==
  <<"P","a","r","i","s"," ","a","n","d"," ","p","a","r","i","s"," ","a","n","d"," ","P","A","R","I","S">>
TextIndianCuisine ==
  <<"I","n","d","i","a","n"," ","c","u","i","s","i","n","e">>
TextNewYorkCity ==
  <<"n","e","w"," ","y","o","r","k"," ","c","i","t","y">>
ScenarioTexts == {TextJourney, TextParisThrice, TextIndianCuisine, TextNewYorkCity}

Fragments ==
  { <<"g","o","a">>, <<"u","k">>,
    <<"s","i","n","g","a","p","o","r","e">>, <<"i","n","d","o","n","e","s","i","a">>,
    <<" ">>, <<"_">>, <<",">>, <<"7">>,
    <<"U+00E9">>, <<"U+0130">>, <<"U","U+212A">> }

FragmentTexts ==
  UNION { {Concat(fs) : fs \in [1..n -> Fragments]} : n \in 0..MaxFrags }

Texts == ScenarioTexts \cup FragmentTexts

(***************************************************************************)
(* Python control flow: a block either returns a value or raises.         *)
(* An exception is its class plus, for HTTPException, status and detail.  *)
(* A detail is the sequence of the pieces of the (f-)string.              *)
(***************************************************************************)
Return(v) == [kind |-> "return", value |-> v]
Raise(e) == [kind |-> "raise", exc |-> e]

HTTPException(s, d) == [class |-> "HTTPException", status_code |-> s, detail |-> d]
Exc(c) == [class |-> c, status_code |-> 0, detail |-> <<>>]

\* direct base class of the exception classes the handlers can meet:
\* fastapi.HTTPException and asyncio.TimeoutError derive from Exception and
\* not from aiohttp.ClientError; json.JSONDecodeError is a ValueError;
\* asyncio.CancelledError is a BaseException and no Exception
BaseOf ==
  [ HTTPException        |-> "Exception",
    ClientError          |-> "Exception",
    ClientConnectorError |-> "ClientError",
    ContentTypeError     |-> "ClientError",
    TimeoutError         |-> "Exception",
    JSONDecodeError      |-> "ValueError",
    ValueError           |-> "Exception",
    TypeError            |-> "Exception",
    AttributeError       |-> "Exception",
    KeyError             |-> "Exception",
    CancelledError       |-> "BaseException",
    Exception            |-> "BaseException" ]

\* isinstance(e, base), as an except clause tests it
RECURSIVE IsInstance(_, _)
IsInstance(class, base) ==
  \/ class = base
  \/ class \in DOMAIN BaseOf /\ IsInstance(BaseOf[class], base)

\* main.py:323-329 http_exception_handler, and the 200 reply to a returned dict
http_exception_handler(exc) ==
  [status_code |-> exc.status_code,
   content |-> [error |-> exc.detail, status_code |-> exc.status_code]]

JSONResponse(content) == [status_code |-> 200, content |-> content]

\* an exception that leaves the application: the caller gets no HTTP answer
Unanswered(exc) == [status_code |-> 0, content |-> [raised |-> exc.class]]

\* what the HTTP caller receives from an endpoint whose body ended in `result`;
\* main.py:331-337 answers every other Exception, and only an Exception, with 500
Respond(result) ==
  IF result.kind = "return" THEN JSONResponse(result.value)
  ELSE IF result.exc.class = "HTTPException" THEN http_exception_handler(result.exc)
  ELSE IF IsInstance(result.exc.class, "Exception")
    THEN [status_code |-> 500,
          content |-> [error |-> <<"Internal server error">>, status_code |-> 500]]
  ELSE Unanswered(result.exc)

(***************************************************************************)
(* What aiohttp hands to a handler for its outbound request: an exception *)
(* raised inside the `async with` blocks, or a response whose body        *)
(* decodes (response.json()) to a JSON value or fails to decode.          *)
(***************************************************************************)
Failure(c) == [kind |-> "raise", exc |-> c]
Response(s, t, b) == [kind |-> "response", status |-> s, text |-> t, body |-> b]

Json(obj) == [decode |-> "ok", type |-> "object", value |-> obj]
JsonArray(seq) == [decode |-> "ok", type |-> "array", items |-> seq]
JsonNull == [decode |-> "ok", type |-> "null"]
Undecodable(c) == [decode |-> c, type |-> "none"]

\* the answer while only its status line has arrived
StatusLine(s) == [kind |-> "status", status |-> s]

\* JSON values inside a posted object, with Python's truth value of each
JStr(chars) == [type |-> "str", chars |-> chars]
JNum(n) == [type |-> "number", number |-> n]
JBool(b) == [type |-> "bool", bool |-> b]
JNull == [type |-> "null"]
JArr(seq) == [type |-> "array", items |-> seq]

\* `not v`
Falsy(v) ==
  CASE v.type = "str" -> v.chars = <<>>
    [] v.type = "number" -> v.number = 0
    [] v.type = "bool" -> ~v.bool
    [] v.type = "null" -> TRUE
    [] v.type = "array" -> v.items = <<>>

(***************************************************************************)
(* make_call, main.py:135-217                                              *)
(***************************************************************************)
\* line 137 with `and` in place of `or`
VapiConfigMissingBoth == VAPI_PRIVATE_KEY = "" /\ VAPI_ASSISTANT_ID = ""

\* line 137
VapiConfigMissing == VAPI_PRIVATE_KEY = "" \/ VAPI_ASSISTANT_ID = ""

\* lines 139-142
VapiConfigError ==
  HTTPException(500, <<"Vapi configuration is incomplete. Check VAPI_PRIVATE_KEY and VAPI_ASSISTANT_ID.">>)

\* lines 144-169: the one POST of an invocation
VapiRequest ==
  [method |-> "POST",
   url |-> <<"https://api.vapi.ai", "/call">>,
   headers |-> [Authorization |-> <<"Bearer ", VAPI_PRIVATE_KEY>>,
                ContentType |-> "application/json"],
   json |-> [assistantId |-> VAPI_ASSISTANT_ID,
             transport |-> [provider |-> "vapi.websocket",
                            audioFormat |-> [format |-> "pcm_s16le",
                                             container |-> "raw",
                                             sampleRate |-> 16000]]]]

\* the key looked up at line 181, as the characters of a JSON string
Str_transport == <<"t", "r", "a", "n", "s", "p", "o", "r", "t">>

\* lines 165-198: the body of the try block, given what aiohttp delivered.
\* Line 181 on a JSON array: `"transport" not in result` compares the key
\* with the items, so an array without that string is an invalid response and
\* an array with it is indexed by a string at `result["transport"]`; on null
\* the `in` test itself raises TypeError.
make_call_try(r) ==
  IF r.kind = "raise" THEN Raise(Exc(r.exc))
  ELSE IF r.status \notin {200, 201}
    THEN Raise(HTTPException(r.status, <<"Vapi API error: ", r.text>>))
  ELSE IF r.body.decode # "ok" THEN Raise(Exc(r.body.decode))
  ELSE IF r.body.type = "array"
    THEN IF \E k \in 1..Len(r.body.items) : r.body.items[k] = JStr(Str_transport)
           THEN Raise(Exc("TypeError"))
           ELSE Raise(HTTPException(500, <<"Invalid response from Vapi API">>))
  ELSE IF r.body.type # "object" THEN Raise(Exc("TypeError"))
  ELSE LET result == r.body.value IN
    IF \/ "transport" \notin DOMAIN result
       \/ "websocketCallUrl" \notin DOMAIN result["transport"]
      THEN Raise(HTTPException(500, <<"Invalid response from Vapi API">>))
      ELSE Return([url |-> result["transport"]["websocketCallUrl"],
                   callId |-> IF "id" \in DOMAIN result THEN result["id"] ELSE "unknown",
                   status |-> "created"])

\* lines 200-217: the except clauses, tried in order
make_call_except(e) ==
  IF IsInstance(e.class, "ClientError")
    THEN Raise(HTTPException(503, <<"Network error connecting to Vapi API">>))
  ELSE IF IsInstance(e.class, "JSONDecodeError")
    THEN Raise(HTTPException(502, <<"Invalid response from Vapi API">>))
  ELSE IF IsInstance(e.class, "Exception")
    THEN Raise(HTTPException(500, <<"Internal server error">>))
  ELSE Raise(e)

\* lines 161-217: the except clauses apply when the try block raised
make_call_handled(body) ==
  IF body.kind = "raise" THEN make_call_except(body.exc) ELSE body

(***************************************************************************)
(* extract_destinations_endpoint, main.py:219-236                          *)
(***************************************************************************)
\* lines 223-232: the try block, given how `await request.json()` ended
extract_destinations_endpoint_try(kw, body) ==
  IF body.decode # "ok" THEN Raise(Exc(body.decode))
  ELSE IF body.type # "object" THEN Raise(Exc("AttributeError"))
  ELSE LET data == body.value
           t == IF "text" \in DOMAIN data THEN data["text"] ELSE JStr(<<>>)
       IN  IF Falsy(t) THEN Return([destinations |-> <<>>])
           ELSE IF t.type # "str" THEN Raise(Exc("AttributeError"))
           ELSE Return([destinations |-> extract_destinations(kw, t.chars)])

\* lines 234-236
extract_destinations_endpoint_except(e) ==
  IF IsInstance(e.class, "Exception")
    THEN Raise(HTTPException(500, <<"Failed to extract destinations">>))
  ELSE Raise(e)

\* lines 222-236
extract_destinations_endpoint(kw, body) ==
  LET result == extract_destinations_endpoint_try(kw, body)
  IN  IF result.kind = "raise" THEN extract_destinations_endpoint_except(result.exc)
      ELSE result

(***************************************************************************)
(* get_destination_photos, main.py:238-312                                 *)
(***************************************************************************)
UnsplashMax == 30

\* line 241
UnsplashConfigMissing == UNSPLASH_ACCESS_KEY = ""

\* lines 242-245
UnsplashConfigError == HTTPException(503, <<"Unsplash API key not configured">>)

\* Python's min(a, b)
min(a, b) == IF b < a THEN b ELSE a

\* line 258 without the clamp
per_page_unclamped(count) == count

\* line 258
per_page(count) == min(count, UnsplashMax)

\* lines 248-270: the one GET of an invocation
UnsplashRequest(destination, count) ==
  [method |-> "GET",
   url |-> <<"https://api.unsplash.com", "/search/photos">>,
   headers |-> [Authorization |-> <<"Client-ID ", UNSPLASH_ACCESS_KEY>>,
                AcceptVersion |-> "v1"],
   params |-> [query |-> <<destination, " travel destination landmark">>,
               per_page |-> per_page(count),
               orientation |-> "landscape",
               content_filter |-> "high",
               order_by |-> "relevant"]]

\* the keys lines 284-290 subscript; a missing one raises KeyError
PhotoComplete(photo) ==
  /\ {"id", "urls", "user", "links"} \subseteq DOMAIN photo
  /\ {"regular", "small"} \subseteq DOMAIN photo["urls"]
  /\ {"name", "links"} \subseteq DOMAIN photo["user"]
  /\ "html" \in DOMAIN photo["user"]["links"]
  /\ "download_location" \in DOMAIN photo["links"]

\* lines 283-291
PhotoRecord(destination, photo) ==
  [id |-> photo["id"],
   url |-> photo["urls"]["regular"],
   thumb |-> photo["urls"]["small"],
   alt |-> IF "alt_description" \in DOMAIN photo /\ photo["alt_description"] # ""
             THEN <<photo["alt_description"]>>
             ELSE <<destination, " travel photo">>,
   photographer |-> photo["user"]["name"],
   photographer_url |-> photo["user"]["links"]["html"],
   download_location |-> photo["links"]["download_location"]]

\* lines 280-291: one photo per result item, in the provider's order
photos_of(destination, results) ==
  [k \in 1..Len(results) |-> PhotoRecord(destination, results[k])]

\* lines 266-299: the body of the try block, given what aiohttp delivered
get_destination_photos_try(destination, r) ==
  IF r.kind = "raise" THEN Raise(Exc(r.exc))
  ELSE IF r.status # 200
    THEN Raise(HTTPException(r.status, <<"Failed to fetch photos from Unsplash">>))
  ELSE IF r.body.decode # "ok" THEN Raise(Exc(r.body.decode))
  ELSE IF r.body.type # "object" THEN Raise(Exc("AttributeError"))
  ELSE LET data == r.body.value
           results == IF "results" \in DOMAIN data THEN data["results"] ELSE <<>>
       IN  IF \E k \in 1..Len(results) : ~PhotoComplete(results[k])
             THEN Raise(Exc("KeyError"))
             ELSE LET photos == photos_of(destination, results)
                  IN  Return([destination |-> destination,
                              photos |-> photos,
                              total |-> Len(photos)])

\* lines 301-312: the except clauses, tried in order
get_destination_photos_except(e) ==
  IF IsInstance(e.class, "ClientError")
    THEN Raise(HTTPException(503, <<"Network error connecting to Unsplash API">>))
  ELSE IF IsInstance(e.class, "Exception")
    THEN Raise(HTTPException(500, <<"Internal server error">>))
  ELSE Raise(e)

\* lines 247-312: the except clauses apply when the try block raised
get_destination_photos_handled(body) ==
  IF body.kind = "raise" THEN get_destination_photos_except(body.exc) ELSE body

(***************************************************************************)
(* Inputs of the handlers and answers of the two providers.                *)
(***************************************************************************)
VapiStatuses == {200, 201, 202, 204, 400, 401, 403, 404, 500, 503}

VapiObjects ==
  { [id |-> "call-1", transport |-> [websocketCallUrl |-> "wss://call-1"]],
    [transport |-> [websocketCallUrl |-> "wss://call-2"]],
    [id |-> "call-3", transport |-> [provider |-> "vapi.websocket"]],
    [id |-> "call-4"],
    [message |-> "accepted"] }

VapiBodies ==
  {Undecodable("JSONDecodeError"), Undecodable("ContentTypeError"), JsonNull,
   JsonArray(<<>>), JsonArray(<<JStr(Str_transport)>>)}
    \cup {Json(o) : o \in VapiObjects}

VapiReplies ==
  {Failure("ClientConnectorError"), Failure("TimeoutError"), Failure("CancelledError")}
    \cup {Response(s, "provider message", b) : s \in {200, 201}, b \in VapiBodies}
    \cup {Response(s, "provider message", Json([message |-> "provider message"])) :
            s \in VapiStatuses \ {200, 201}}

\* the answers used when several invocations run concurrently
ConcVapiReplies ==
  { Failure("TimeoutError"),
    Response(403, "provider message", Json([message |-> "provider message"])),
    Response(201, "provider message", Json([id |-> "call-4"])),
    Response(201, "provider message",
             Json([id |-> "call-1", transport |-> [websocketCallUrl |-> "wss://call-1"]])) }

UnsplashStatuses == {200, 201, 401, 403, 404, 500}

ItemFull(n) ==
  [id |-> n,
   urls |-> [regular |-> <<n, "/regular">>, small |-> <<n, "/small">>],
   alt_description |-> "a view",
   user |-> [name |-> "Ada", links |-> [html |-> "https://unsplash.com/@ada"]],
   links |-> [download_location |-> <<n, "/download">>]]

\* alt_description absent (or null): the fallback text is used
ItemNoAlt(n) ==
  [id |-> n,
   urls |-> [regular |-> <<n, "/regular">>, small |-> <<n, "/small">>],
   user |-> [name |-> "Bo", links |-> [html |-> "https://unsplash.com/@bo"]],
   links |-> [download_location |-> <<n, "/download">>]]

\* an item without "urls": line 285 raises KeyError
ItemBroken(n) ==
  [id |-> n,
   user |-> [name |-> "Cy", links |-> [html |-> "https://unsplash.com/@cy"]],
   links |-> [download_location |-> <<n, "/download">>]]

Items == {ItemFull("p1"), ItemNoAlt("p2"), ItemBroken("p3")}

ResultLists == UNION { [1..n -> Items] : n \in 0..MaxResults }

UnsplashBodies ==
  {Undecodable("JSONDecodeError"), Undecodable("ContentTypeError"), JsonNull,
   Json([total |-> 0])}
    \cup {Json([results |-> rs]) : rs \in ResultLists}

UnsplashReplies ==
  {Failure("ClientConnectorError"), Failure("TimeoutError"), Failure("CancelledError")}
    \cup {Response(200, "", b) : b \in UnsplashBodies}
    \cup {Response(s, "", Json([errors |-> "provider message"])) :
            s \in UnsplashStatuses \ {200}}

ConcUnsplashReplies ==
  { Failure("ClientConnectorError"),
    Response(403, "", Json([errors |-> "provider message"])),
    Response(200, "", Json([results |-> <<ItemFull("p1"), ItemNoAlt("p2")>>])) }

Destinations == {"Paris", "Japan"}
Counts == ((0 - 1)..(UnsplashMax + MaxOver)) \cup {50}

ConcDestinations == {"Paris"}
ConcCounts == {6, 50}

\* JSON bodies posted to /extract-destinations
ExtractData ==
  {Json([text |-> JStr(t)]) : t \in ScenarioTexts \cup {<<>>}}
    \cup {Json([text |-> v]) :
            v \in {JNum(5), JNum(0), JBool(TRUE), JBool(FALSE), JNull,
                   JArr(<<>>), JArr(<<JStr(TextNewYorkCity)>>)}}
    \cup {Json([other |-> JStr(TextNewYorkCity)]),
          JsonArray(<<JStr(TextNewYorkCity)>>), JsonNull,
          Undecodable("JSONDecodeError")}

ConcExtractData ==
  {Json([text |-> JStr(TextParisThrice)]), Json([text |-> JNum(5)]),
   Undecodable("JSONDecodeError")}

(***************************************************************************)
(* Invocations.  Each one is served by one handler and runs from one      *)
(* suspension point (await) of the handler to the next: make_call and     *)
(* get_destination_photos await the response, then its body, then the     *)
(* exit of their `async with` blocks; extract_destinations_endpoint       *)
(* awaits the request body.                                                *)
(***************************************************************************)
Invocations == 1..NumInv

NoArg == [none |-> <<>>]
NoReply == [kind |-> "none"]
NoPending == [kind |-> "none"]
NoOutcome == [status_code |-> 0, content |-> [none |-> <<>>]]

\* one ClientSession shared by all invocations: the first handler to leave its
\* `async with` block closes it under the requests still in flight
ReceivedSharedSession(i, r) ==
  IF \E j \in Invocations \ {i} : pc[j] = "done" /\ request[j] # <<>>
    THEN Failure("ClientConnectorError")
    ELSE r

\* lines 164-165 and 265-266: every invocation opens a ClientSession of its
\* own, so it receives the answer to its own request and nothing else
Received(i, r) == r

InitConfig ==
  /\ VAPI_PRIVATE_KEY \in {"", "key"}
  /\ VAPI_ASSISTANT_ID \in {"", "assistant"}
  /\ UNSPLASH_ACCESS_KEY \in {"", "access"}
  /\ keywords = DESTINATION_KEYWORDS

InitIdle ==
  /\ pc = [i \in Invocations |-> "idle"]
  /\ op = [i \in Invocations |-> "none"]
  /\ arg = [i \in Invocations |-> NoArg]
  /\ request = [i \in Invocations |-> <<>>]
  /\ reply = [i \in Invocations |-> NoReply]
  /\ pending = [i \in Invocations |-> NoPending]
  /\ outcome = [i \in Invocations |-> NoOutcome]

InitNoText ==
  /\ text = <<>>
  /\ destinations = <<>>
  /\ extracted = FALSE

Init == InitConfig /\ InitIdle /\ InitNoText

\* the try block of the handler that invocation i runs, applied to what the
\* provider sent (make_call lines 161-198, get_destination_photos lines 247-299)
TryBlock(i, r) ==
  IF op[i] = "make_call"
    THEN make_call_try(r)
    ELSE get_destination_photos_try(arg[i].destination, r)

\* whether the handler of invocation i awaits the body after status s:
\* make_call reads response.text() on an error status (line 172) and
\* response.json() otherwise (line 179); get_destination_photos reads
\* response.json() on status 200 only (line 279) and raises at line 274
\* without reading on any other status
ReadsBody(i, s) == op[i] = "make_call" \/ s = 200

\* the response of an outbound request arrives or the request fails
\* (the await of session.post / session.get, lines 165-169 and 266-270);
\* when no body is awaited the try block runs up to the exit of the
\* `async with` blocks
AwaitResponse(i, replies) ==
  /\ pc[i] = "awaiting"
  /\ \E r \in replies :
       LET got == Received(i, r) IN
       IF got.kind = "raise" \/ ~ReadsBody(i, got.status)
         THEN /\ reply' = [reply EXCEPT ![i] = r]
              /\ pending' = [pending EXCEPT ![i] = TryBlock(i, got)]
              /\ pc' = [pc EXCEPT ![i] = "closing"]
         ELSE /\ reply' = [reply EXCEPT ![i] = StatusLine(r.status)]
              /\ pc' = [pc EXCEPT ![i] = "reading"]
              /\ UNCHANGED pending
  /\ UNCHANGED <<config, keywords, text, destinations, extracted, op, arg, request,
                 outcome>>

\* the body of the response arrives or reading it fails
\* (the await of response.text() / response.json(), lines 172, 179 and 279);
\* the rest of the try block runs up to the exit of the `async with` blocks
AwaitBody(i, replies) ==
  /\ pc[i] = "reading"
  /\ \E r \in replies :
       /\ IF r.kind = "raise" THEN TRUE ELSE r.status = reply[i].status
       /\ reply' = [reply EXCEPT ![i] = r]
       /\ pending' = [pending EXCEPT ![i] = TryBlock(i, Received(i, r))]
  /\ pc' = [pc EXCEPT ![i] = "closing"]
  /\ UNCHANGED <<config, keywords, text, destinations, extracted, op, arg, request,
                 outcome>>

\* make_call up to the await of session.post (lines 136-169)
MakeCallStart(i) ==
  /\ pc[i] = "idle"
  /\ op' = [op EXCEPT ![i] = "make_call"]
  /\ IF VapiConfigMissing
       THEN /\ outcome' = [outcome EXCEPT ![i] = Respond(Raise(VapiConfigError))]
            /\ pc' = [pc EXCEPT ![i] = "done"]
            /\ UNCHANGED request
       ELSE /\ request' = [request EXCEPT ![i] = Append(request[i], VapiRequest)]
            /\ pc' = [pc EXCEPT ![i] = "awaiting"]
            /\ UNCHANGED outcome
  /\ UNCHANGED <<config, keywords, text, destinations, extracted, arg, reply, pending>>

\* make_call from the return of session.post to the await of the body (lines 165-172)
MakeCallStatus(i, replies) ==
  /\ op[i] = "make_call"
  /\ AwaitResponse(i, replies)

\* make_call from the body to the exit of the `async with` blocks (lines 172-198)
MakeCallBody(i, replies) ==
  /\ op[i] = "make_call"
  /\ AwaitBody(i, replies)

\* make_call after the `async with` blocks: the except clauses and the answer
\* (lines 200-217)
MakeCallClose(i) ==
  /\ pc[i] = "closing"
  /\ op[i] = "make_call"
  /\ outcome' = [outcome EXCEPT ![i] = Respond(make_call_handled(pending[i]))]
  /\ pc' = [pc EXCEPT ![i] = "done"]
  /\ UNCHANGED <<config, keywords, text, destinations, extracted, op, arg, request,
                 reply, pending>>

\* extract_destinations_endpoint up to the await of request.json() (lines 220-223)
ExtractStart(i) ==
  /\ pc[i] = "idle"
  /\ op' = [op EXCEPT ![i] = "extract_destinations"]
  /\ pc' = [pc EXCEPT ![i] = "reading"]
  /\ UNCHANGED <<config, keywords, text, destinations, extracted, arg, request, reply,
                 pending, outcome>>

\* extract_destinations_endpoint from the request body to the end (lines 223-236)
ExtractFinish(i, bodies) ==
  /\ pc[i] = "reading"
  /\ op[i] = "extract_destinations"
  /\ \E body \in bodies :
       /\ arg' = [arg EXCEPT ![i] = body]
       /\ outcome' = [outcome EXCEPT ![i] =
                        Respond(extract_destinations_endpoint(keywords, body))]
  /\ pc' = [pc EXCEPT ![i] = "done"]
  /\ UNCHANGED <<config, keywords, text, destinations, extracted, op, request, reply,
                 pending>>

\* get_destination_photos up to the await of session.get (lines 239-270)
PhotosStart(i, dests, counts) ==
  /\ pc[i] = "idle"
  /\ op' = [op EXCEPT ![i] = "get_destination_photos"]
  /\ \E destination \in dests, count \in counts :
       /\ arg' = [arg EXCEPT ![i] = [destination |-> destination, count |-> count]]
       /\ IF UnsplashConfigMissing
            THEN /\ outcome' = [outcome EXCEPT ![i] = Respond(Raise(UnsplashConfigError))]
                 /\ pc' = [pc EXCEPT ![i] = "done"]
                 /\ UNCHANGED request
            ELSE /\ request' = [request EXCEPT ![i] =
                                  Append(request[i], UnsplashRequest(destination, count))]
                 /\ pc' = [pc EXCEPT ![i] = "awaiting"]
                 /\ UNCHANGED outcome
  /\ UNCHANGED <<config, keywords, text, destinations, extracted, reply, pending>>

\* get_destination_photos from the return of session.get to the await of the
\* body (lines 266-279)
PhotosStatus(i, replies) ==
  /\ op[i] = "get_destination_photos"
  /\ AwaitResponse(i, replies)

\* get_destination_photos from the body to the exit of the `async with` blocks
\* (lines 279-299)
PhotosBody(i, replies) ==
  /\ op[i] = "get_destination_photos"
  /\ AwaitBody(i, replies)

\* get_destination_photos after the `async with` blocks: the except clauses and
\* the answer (lines 301-312)
PhotosClose(i) ==
  /\ pc[i] = "closing"
  /\ op[i] = "get_destination_photos"
  /\ outcome' = [outcome EXCEPT ![i] =
                   Respond(get_destination_photos_handled(pending[i]))]
  /\ pc' = [pc EXCEPT ![i] = "done"]
  /\ UNCHANGED <<config, keywords, text, destinations, extracted, op, arg, request,
                 reply, pending>>

\* concurrent invocations, interleaved at their suspension points
Next ==
  \E i \in Invocations :
     \/ MakeCallStart(i)
     \/ MakeCallStatus(i, ConcVapiReplies)
     \/ MakeCallBody(i, ConcVapiReplies)
     \/ MakeCallClose(i)
     \/ ExtractStart(i)
     \/ ExtractFinish(i, ConcExtractData)
     \/ PhotosStart(i, ConcDestinations, ConcCounts)
     \/ PhotosStatus(i, ConcUnsplashReplies)
     \/ PhotosBody(i, ConcUnsplashReplies)
     \/ PhotosClose(i)

Spec == Init /\ [][Next]_vars

\* one invocation, over every input and every provider answer
NextHandlers ==
  \/ MakeCallStart(1)
  \/ MakeCallStatus(1, VapiReplies)
  \/ MakeCallBody(1, VapiReplies)
  \/ MakeCallClose(1)
  \/ ExtractStart(1)
  \/ ExtractFinish(1, ExtractData)
  \/ PhotosStart(1, Destinations, Counts)
  \/ PhotosStatus(1, UnsplashReplies)
  \/ PhotosBody(1, UnsplashReplies)
  \/ PhotosClose(1)

SpecHandlers == Init /\ [][NextHandlers]_vars

(***************************************************************************)
(* One extract_destinations call on an arbitrary text.                     *)
(***************************************************************************)
InitExtract ==
  /\ VAPI_PRIVATE_KEY = "key"
  /\ VAPI_ASSISTANT_ID = "assistant"
  /\ UNSPLASH_ACCESS_KEY = "access"
  /\ keywords = DESTINATION_KEYWORDS
  /\ InitIdle
  /\ text \in Texts
  /\ destinations = <<>>
  /\ extracted = FALSE

Extract ==
  /\ ~extracted
  /\ destinations' = extract_destinations(keywords, text)
  /\ extracted' = TRUE
  /\ UNCHANGED <<config, keywords, text, pc, op, arg, request, reply, pending, outcome>>

NextExtract == Extract

SpecExtract == InitExtract /\ [][NextExtract]_vars

(***************************************************************************)
(* Properties.                                                             *)
(***************************************************************************)
Scan == ScanOrder(DESTINATION_KEYWORDS)
Phrases == {Scan[k] : k \in 1..Len(Scan)}
FirstPos(p) == CHOOSE k \in 1..Len(Scan) : Scan[k] = p /\ \A m \in 1..(k - 1) : Scan[m] # p

Str_goa == <<"g","o","a">>
Str_Goa == <<"G","o","a">>
Str_Paris == <<"P","a","r","i","s">>
Str_Japan == <<"J","a","p","a","n">>
Str_EiffelTower == <<"E","i","f","f","e","l"," ","T","o","w","e","r">>
Str_singapore == <<"s","i","n","g","a","p","o","r","e">>
Str_Singapore == <<"S","i","n","g","a","p","o","r","e">>

MakeCallDone(i) == op[i] = "make_call" /\ pc[i] = "done"
PhotosDone(i) == op[i] = "get_destination_photos" /\ pc[i] = "done"

\* C1: when the voice provider answers the call-creation request with a status
\* outside {200, 201}, the status the caller of make_call receives is that status.
C1_ProviderStatusSurfaced ==
  \A i \in Invocations :
     (MakeCallDone(i) /\ reply[i].kind = "response" /\ reply[i].status \notin {200, 201})
       => outcome[i].status_code = reply[i].status

\* C2: when the image-search provider answers with a status other than 200,
\* the status the caller of get_destination_photos receives is that status.
C2_PhotoStatusSurfaced ==
  \A i \in Invocations :
     (PhotosDone(i) /\ reply[i].kind = "response" /\ reply[i].status # 200)
       => outcome[i].status_code = reply[i].status

\* C3: make_call issues at most one outbound request per invocation, issues one
\* only when the provider key and the assistant id are both non-empty, and when
\* either is empty it ends with the configuration error (status 500) and no request.
C3_NoRequestWithoutConfig ==
  \A i \in Invocations :
     op[i] = "make_call" =>
       /\ Len(request[i]) <= 1
       /\ request[i] # <<>> => (VAPI_PRIVATE_KEY # "" /\ VAPI_ASSISTANT_ID # "")
       /\ (VAPI_PRIVATE_KEY = "" \/ VAPI_ASSISTANT_ID = "") =>
            /\ pc[i] = "done"
            /\ request[i] = <<>>
            /\ outcome[i].status_code = 500
            /\ outcome[i].content.error = VapiConfigError.detail

C3_Witness ==
  \E i \in Invocations :
     /\ MakeCallDone(i)
     /\ VAPI_PRIVATE_KEY = "key" /\ VAPI_ASSISTANT_ID = ""
     /\ request[i] = <<>>
     /\ outcome[i].status_code = 500

\* C4: when the outbound request of make_call or get_destination_photos exceeds
\* its total timeout, the caller receives the network error, status 503.
C4_TimeoutIsNetworkError ==
  \A i \in Invocations :
     (pc[i] = "done" /\ reply[i].kind = "raise" /\ reply[i].exc = "TimeoutError")
       => outcome[i].status_code = 503

Malformed(i) ==
  /\ MakeCallDone(i)
  /\ reply[i].kind = "response" /\ reply[i].status \in {200, 201}
  /\ reply[i].body.decode = "ok" /\ reply[i].body.type = "object"
  /\ \/ "transport" \notin DOMAIN reply[i].body.value
     \/ "websocketCallUrl" \notin DOMAIN reply[i].body.value["transport"]

ProviderReportedError(i) ==
  /\ MakeCallDone(i)
  /\ reply[i].kind = "response" /\ reply[i].status \notin {200, 201}

\* C5: make_call succeeds only on a 200/201 answer whose JSON body has
\* transport.websocketCallUrl; a 200/201 body without it makes the call fail, with
\* an answer the caller can tell apart from the one for a provider error status.
C5_MalformedDistinct ==
  /\ \A i \in Invocations :
        (MakeCallDone(i) /\ outcome[i].status_code = 200) =>
           /\ reply[i].kind = "response" /\ reply[i].status \in {200, 201}
           /\ ~Malformed(i)
  /\ \A i, j \in Invocations :
        (Malformed(i) /\ ProviderReportedError(j)) => outcome[i] # outcome[j]

\* C6 as stated: the journey sentence yields Paris, Eiffel Tower, Japan in that order.
C6_JourneyTextOrder ==
  (extracted /\ text = TextJourney)
    => destinations = <<Str_Paris, Str_EiffelTower, Str_Japan>>

\* C6 amended: the journey sentence yields Paris, Japan, Eiffel Tower, the order
\* of the category scan (cities, countries, landmarks).
C6_JourneyScanOrder ==
  (extracted /\ text = TextJourney)
    => destinations = <<Str_Paris, Str_Japan, Str_EiffelTower>>

C6_Witness == extracted /\ text = TextJourney /\ Len(destinations) = 3

\* C7: no two entries of a result are equal case-insensitively, every entry is a
\* dictionary phrase, and the entries stand in the order of the phrases' first
\* occurrences in the category-then-list scan.
C7_UniqueInScanOrder ==
  extracted =>
    /\ \A a \in 1..Len(destinations) : str_lower(destinations[a]) \in Phrases
    /\ \A a, b \in 1..Len(destinations) :
          a < b =>
            /\ str_lower(destinations[a]) # str_lower(destinations[b])
            /\ FirstPos(str_lower(destinations[a])) < FirstPos(str_lower(destinations[b]))

C7_Witness ==
  /\ extracted
  /\ text = Str_goa \o <<" ">> \o Str_singapore
  /\ destinations = <<Str_Singapore, Str_Goa>>

NonAlnum(c) == ~IsAlnum(c)
NonWord(c) == ~IsAlnum(c) /\ c # "_"

\* p occurs in s with, on each side, the end of s or a character satisfying Delim
Delimited(p, s, Delim(_)) ==
  \E k \in 1..(Len(s) - Len(p) + 1) :
     /\ s[k] = p[1]
     /\ SubSeq(s, k, k + Len(p) - 1) = p
     /\ (k = 1 \/ Delim(s[k - 1]))
     /\ (k + Len(p) - 1 = Len(s) \/ Delim(s[k + Len(p)]))

Reported(p) == \E a \in 1..Len(destinations) : str_lower(destinations[a]) = p

\* C8 as stated: a phrase is reported iff the lower-cased text has an occurrence
\* of it delimited on both sides by the text's end or a non-alphanumeric character.
C8_NonAlnumDelimited ==
  extracted =>
    LET text_lower == str_lower(text)
    IN  \A p \in Phrases : Reported(p) <=> Delimited(p, text_lower, NonAlnum)

\* C8 amended: a phrase is reported iff the lower-cased text has an occurrence of
\* it delimited on both sides by the text's end or a character that is neither
\* alphanumeric nor the underscore.
C8_NonWordDelimited ==
  extracted =>
    LET text_lower == str_lower(text)
    IN  \A p \in Phrases : Reported(p) <=> Delimited(p, text_lower, NonWord)

C8_Witness ==
  /\ extracted
  /\ text = Str_goa \o <<"_">>
  /\ destinations = <<>>

ResultsOf(r) ==
  IF "results" \in DOMAIN r.body.value THEN r.body.value["results"] ELSE <<>>

\* C9: the page size get_destination_photos sends is the requested count when
\* that is at most 30 and 30 otherwise, and a successful answer carries one photo
\* per provider result item, in the provider's order, with total their number.
C9_ClampedPageSize ==
  \A i \in Invocations :
     op[i] = "get_destination_photos" =>
       /\ request[i] # <<>> =>
            LET sent == request[i][1].params.per_page
            IN  /\ sent <= 30
                /\ sent <= arg[i].count
                /\ sent = arg[i].count \/ sent = 30
       /\ (pc[i] = "done" /\ outcome[i].status_code = 200) =>
            LET photos == outcome[i].content.photos
                results == ResultsOf(reply[i])
            IN  /\ outcome[i].content.total = Len(photos)
                /\ Len(photos) = Len(results)
                /\ \A k \in 1..Len(results) : photos[k].id = results[k]["id"]

C9_Witness ==
  \E i \in Invocations :
     /\ PhotosDone(i)
     /\ arg[i].count = 50
     /\ Len(request[i]) = 1
     /\ request[i][1].params.per_page = 30
     /\ outcome[i].status_code = 200
     /\ outcome[i].content.total = 2

SameInputsSameOutcome ==
  \A i, j \in Invocations :
     (/\ pc[i] = "done" /\ pc[j] = "done"
      /\ op[i] = op[j] /\ arg[i] = arg[j] /\ reply[i] = reply[j])
       => outcome[i] = outcome[j]

\* C10: no step of any invocation changes the destination dictionary or the
\* configuration, and two finished invocations of the same handler with the same
\* input and the same provider answer have the same outcome, however the
\* invocations were interleaved.
C10_Independent ==
  /\ [][keywords' = keywords /\ config' = config]_vars
  /\ [](keywords = DESTINATION_KEYWORDS /\ SameInputsSameOutcome)

C10_Witness ==
  /\ pc[1] = "done" /\ pc[2] = "done"
  /\ op[1] = "make_call" /\ op[2] = "make_call"
  /\ reply[1] = reply[2]
  /\ outcome[1].status_code = 200 /\ outcome[2].status_code = 200
=============================================================================
